---- MODULE Spec2Model ----
(***************************************************************************)
(* A model of src/Fruit_day.py: the segmented, concurrent date-range       *)
(* fetcher (period_windows, get_json, fetch_period_block, process_period   *)
(* and the main block).                                                    *)
(*                                                                         *)
(* The specifications of the module:                                       *)
(*   SpecPW     the generator period_windows, stepped one yield at a time  *)
(*   SpecFetch  fetch_period_block with get_json inlined, against an       *)
(*              upstream that answers every attempt as it likes            *)
(*   Spec       the main block: header, thread pool, process_period,       *)
(*              as_completed aggregation                                   *)
(*   FairSpec   Spec with every thread scheduled fairly                    *)
(*   SpecNorm   normalize_record on a raw mapping, then on its own result  *)
(*   SpecDate   to_roc and roc_to_western on dates and on date strings     *)
(* Dates are day ordinals (date.toordinal), strings are sequences of       *)
(* one-character strings.                                                  *)
(***************************************************************************)
EXTENDS Integers, Sequences, FiniteSets, TLC

VARIABLES
    \* ---- period_windows (generator frame) ----
    pw_start,      \* start_d
    pw_end,        \* end_d
    pw_days,       \* days
    pw_cursor,     \* cursor
    pw_pc,         \* "call" | "loop" | "done"
    pw_out,        \* the windows yielded so far, in order
    \* ---- fetch_period_block (one call) with get_json inlined ----
    page_top,      \* page_top
    fb_pc,         \* "entry" | "request" | "attempt" | "got" | "done" | "raised"
    skip,          \* skip
    all_rows,      \* all_rows
    data,          \* data, what get_json returned last
    fb_ret,        \* the value fetch_period_block returned
    gj_i,          \* get_json's loop index i
    gj_sleeps,     \* the time.sleep arguments of the current get_json call
    gj_outcomes,   \* how each session.get of the current get_json call ended
    gj_exhausted,  \* the current get_json call fell out of its loop
    skips,         \* the $skip of every get_json call made, in order
    returns,       \* what every get_json call returned, in order
    \* ---- the main block and its thread pool ----
    main_pc,         \* "header" | "submit" | "collect" | "done" | "failed"
    total_tasks,     \* total_tasks = len(period_list)
    file,            \* the rows of OUTPUT_CSV
    header_writes,   \* how many times writeheader has run
    submitted,       \* how many windows of period_list have been submitted
    t_pc,            \* per task: where its process_period call is
    t_rows,          \* per task: len(rows), what fetch_period_block returned
    t_written,       \* per task: the rows the for loop has written
    t_tmp,           \* per task: the completed_tasks it loaded for += 1
    progress_lock,   \* 0 when free, else the task that holds it
    completed_tasks, \* completed_tasks
    collected,       \* the futures as_completed has yielded
    total_cnt,       \* total_cnt
    \* ---- normalize_record, called on a record and again on its result ----
    n_rec,         \* rec, the raw mapping
    n_pc,          \* "call" | "once" | "twice" | "raised"
    n_out1,        \* normalize_record(rec)
    n_out2,        \* normalize_record(normalize_record(rec))
    \* ---- to_roc and roc_to_western, called on their own ----
    dc_in,         \* a date (year, month, day) or a value given as date_str
    dc_pc,         \* "date" | "roc" | "back" | "str" | "converted" | "raised"
    dc_roc,        \* to_roc(d, use_roc=True)
    dc_out         \* what roc_to_western returned

pwVars == <<pw_start, pw_end, pw_days, pw_cursor, pw_pc, pw_out>>

fbVars == <<page_top, fb_pc, skip, all_rows, data, fb_ret, gj_i, gj_sleeps,
            gj_outcomes, gj_exhausted, skips, returns>>

mainVars == <<main_pc, total_tasks, file, header_writes, submitted, t_pc,
              t_rows, t_written, t_tmp, progress_lock, completed_tasks,
              collected, total_cnt>>

normVars == <<n_rec, n_pc, n_out1, n_out2>>

dcVars == <<dc_in, dc_pc, dc_roc, dc_out>>

----------------------------------------------------------------------------
\* Bounds of the model

\* dates are the ordinals 0..MaxDay
MaxDay == 4
\* segment lengths tried are -1..MaxSeg, and SEGMENT_DAYS
MaxSeg == 3
\* page sizes tried are 1..MaxPageTop
MaxPageTop == 2
\* the upstream serves at most this many records to one window
MaxRecords == 5
\* period_list has 1..MaxTasks windows
MaxTasks == 2
\* a window's fetch returns 0..MaxRows rows
MaxRows == 2
\* the pool runs at most this many tasks at once (MAX_WORKERS of the run)
MaxWorkers == 2
\* date strings tried have at most this many characters
MaxDateLen == 5

----------------------------------------------------------------------------
\* Program constants

SEGMENT_DAYS == 10
RETRY_DELAY_BASE == 1
\* get_json's default max_retry
MAX_RETRY == 5
\* the category code kept by fetch_period_block
N05 == <<"N", "0", "5">>

----------------------------------------------------------------------------
\* Helpers

Min(a, b) == IF a <= b THEN a ELSE b

Last(s) == s[Len(s)]

\* the concatenation of a sequence of sequences
RECURSIVE Concat(_)
Concat(ss) == IF ss = <<>> THEN <<>> ELSE Head(ss) \o Concat(Tail(ss))

\* the sequences over S of length 0..n
SeqsUpTo(S, n) == UNION {[1..k -> S] : k \in 0..n}

----------------------------------------------------------------------------
\* Python values as they come out of r.json(): a tag and a payload.
\* A str is a sequence of one-character strings, a dict a function from
\* key names to values, a list a sequence of values.

PyNone == [t |-> "none", v |-> <<>>]
PyStr(s) == [t |-> "str", v |-> s]
PyInt(n) == [t |-> "int", v |-> n]
PyList(xs) == [t |-> "list", v |-> xs]
PyDict(f) == [t |-> "dict", v |-> f]

EmptyStr == PyStr(<<>>)
EmptyList == PyList(<<>>)

\* bool(x) is False
Falsy(x) ==
    \/ x.t = "none"
    \/ x.t = "str" /\ x.v = <<>>
    \/ x.t = "int" /\ x.v = 0
    \/ x.t = "list" /\ x.v = <<>>
    \/ x.t = "dict" /\ DOMAIN x.v = {}

Whitespace == {" ", "\t", "\n"}
Digit == {"0", "1", "2", "3", "4", "5", "6", "7", "8", "9"}

DigitVal(c) ==
    CASE c = "0" -> 0 [] c = "1" -> 1 [] c = "2" -> 2 [] c = "3" -> 3
      [] c = "4" -> 4 [] c = "5" -> 5 [] c = "6" -> 6 [] c = "7" -> 7
      [] c = "8" -> 8 [] c = "9" -> 9

DigitChar(n) ==
    CASE n = 0 -> "0" [] n = 1 -> "1" [] n = 2 -> "2" [] n = 3 -> "3"
      [] n = 4 -> "4" [] n = 5 -> "5" [] n = 6 -> "6" [] n = 7 -> "7"
      [] n = 8 -> "8" [] n = 9 -> "9"

\* str.lstrip / str.rstrip / str.strip on a character sequence
RECURSIVE LStrip(_)
LStrip(s) ==
    IF s # <<>> /\ Head(s) \in Whitespace THEN LStrip(Tail(s)) ELSE s

RECURSIVE RStrip(_)
RStrip(s) ==
    IF s # <<>> /\ Last(s) \in Whitespace
    THEN RStrip(SubSeq(s, 1, Len(s) - 1))
    ELSE s

Strip(s) == RStrip(LStrip(s))

\* the decimal digits of n >= 0
RECURSIVE Digits(_)
Digits(n) ==
    IF n < 10 THEN <<DigitChar(n)>> ELSE Append(Digits(n \div 10), DigitChar(n % 10))

RECURSIVE Zeros(_)
Zeros(k) == IF k <= 0 THEN <<>> ELSE <<"0">> \o Zeros(k - 1)

\* str(n) for an int
IntToStr(n) == IF n < 0 THEN <<"-">> \o Digits(-n) ELSE Digits(n)

\* f"{n:0{width}d}": zero padding after the sign, the sign counted in the width
FormatZero(n, width) ==
    IF n < 0
    THEN <<"-">> \o Zeros(width - 1 - Len(Digits(-n))) \o Digits(-n)
    ELSE Zeros(width - Len(Digits(n))) \o Digits(n)

\* str(x) of a value (only str, int and None are rendered by the model)
PyStrOf(x) ==
    CASE x.t = "str" -> x.v
      [] x.t = "int" -> IntToStr(x.v)
      [] x.t = "none" -> <<"N", "o", "n", "e">>
      [] OTHER -> <<"?">>

\* str.split(sep) for a one-character separator
RECURSIVE SplitAt(_, _, _)
SplitAt(s, sep, acc) ==
    IF s = <<>> THEN <<acc>>
    ELSE IF Head(s) = sep THEN <<acc>> \o SplitAt(Tail(s), sep, <<>>)
    ELSE SplitAt(Tail(s), sep, Append(acc, Head(s)))

Split(s, sep) == SplitAt(s, sep, <<>>)

\* the digits of an int literal: single underscores are allowed between digits
IntBodyOk(b) ==
    /\ b # <<>>
    /\ \A i \in 1..Len(b) : b[i] \in Digit \cup {"_"}
    /\ Head(b) # "_"
    /\ Last(b) # "_"
    /\ \A i \in 1..(Len(b) - 1) : ~(b[i] = "_" /\ b[i + 1] = "_")

RECURSIVE IntBodyVal(_, _)
IntBodyVal(b, acc) ==
    IF b = <<>> THEN acc
    ELSE IF Head(b) = "_" THEN IntBodyVal(Tail(b), acc)
    ELSE IntBodyVal(Tail(b), 10 * acc + DigitVal(Head(b)))

\* int(s) for a str: ok is FALSE where Python raises ValueError
ParseInt(s) ==
    LET t == Strip(s)
        signed == t # <<>> /\ Head(t) \in {"+", "-"}
        body == IF signed THEN Tail(t) ELSE t
    IN IF IntBodyOk(body)
       THEN [ok |-> TRUE,
             v |-> IF signed /\ Head(t) = "-"
                   THEN 0 - IntBodyVal(body, 0)
                   ELSE IntBodyVal(body, 0)]
       ELSE [ok |-> FALSE, v |-> 0]

----------------------------------------------------------------------------
\* to_roc and roc_to_western

ROC_OFFSET == 1911

Dot == <<".">>

to_roc_no_offset(y, m, d, use_roc) ==
    FormatZero(y, 3) \o Dot \o FormatZero(m, 2) \o Dot \o FormatZero(d, 2)

\* to_roc on the (year, month, day) of a date
to_roc(y, m, d, use_roc) ==
    LET year == IF use_roc THEN y - ROC_OFFSET ELSE y
    IN FormatZero(year, 3) \o Dot \o FormatZero(m, 2) \o Dot \o FormatZero(d, 2)

\* an exception on its way out of a call
PyRaise == [t |-> "raise", v |-> <<>>]

\* the try block of roc_to_western: the value it returns, or PyRaise where
\* date_str.split (no str) or int(part) (no integer literal) raises
TryConvert(date_str) ==
    IF date_str.t # "str" THEN PyRaise
    ELSE LET parts == Split(date_str.v, ".")
         IN IF Len(parts) # 3 THEN date_str
            ELSE LET y == ParseInt(parts[1])
                     m == ParseInt(parts[2])
                     d == ParseInt(parts[3])
                 IN IF ~(y.ok /\ m.ok /\ d.ok) THEN PyRaise
                    ELSE PyStr(FormatZero(y.v + ROC_OFFSET, 4) \o Dot
                               \o FormatZero(m.v, 2) \o Dot \o FormatZero(d.v, 2))

ExceptPropagates(date_str) == PyRaise

ExceptReturnsEmpty(date_str) == EmptyStr

\* except Exception: return date_str
ExceptException(date_str) == date_str

\* roc_to_western(date_str) on a value; the result is a value
roc_to_western(date_str) ==
    IF Falsy(date_str) THEN EmptyStr
    ELSE LET r == TryConvert(date_str)
         IN IF r = PyRaise THEN ExceptException(date_str) ELSE r

----------------------------------------------------------------------------
\* normalize_record

\* the keys of the Chinese naming convention, transliterated:
\*   JiaoYiRiQi 交易日期   ZhongLeiDaiMa 種類代碼   ZuoWuDaiHao 作物代號
\*   ZuoWuMingCheng 作物名稱   ShiChangDaiHao 市場代號   ShiChangMingCheng 市場名稱
\*   ShangJia 上價   ZhongJia 中價   XiaJia 下價   PingJunJia 平均價
\*   JiaoYiLiang 交易量
OUTPUT_FIELDS ==
    <<"JiaoYiRiQi", "ZhongLeiDaiMa", "ZuoWuDaiHao", "ZuoWuMingCheng",
      "ShiChangDaiHao", "ShiChangMingCheng", "ShangJia", "ZhongJia", "XiaJia",
      "PingJunJia", "JiaoYiLiang">>

OutputFieldSet == {OUTPUT_FIELDS[i] : i \in 1..Len(OUTPUT_FIELDS)}

\* the candidates pick() is given for each target field, in order
Candidates(field) ==
    CASE field = "JiaoYiRiQi" -> <<"TransDate", "JiaoYiRiQi">>
      [] field = "ZhongLeiDaiMa" -> <<"CategoryCode", "ZhongLeiDaiMa">>
      [] field = "ZuoWuDaiHao" -> <<"CropCode", "ZuoWuDaiHao">>
      [] field = "ZuoWuMingCheng" -> <<"CropName", "ZuoWuMingCheng">>
      [] field = "ShiChangDaiHao" -> <<"MarketCode", "ShiChangDaiHao">>
      [] field = "ShiChangMingCheng" -> <<"MarketName", "ShiChangMingCheng">>
      [] field = "ShangJia" -> <<"UpperPrice", "ShangJia">>
      [] field = "ZhongJia" -> <<"MiddlePrice", "ZhongJia">>
      [] field = "XiaJia" -> <<"LowerPrice", "XiaJia">>
      [] field = "PingJunJia" -> <<"AveragePrice", "PingJunJia">>
      [] field = "JiaoYiLiang" -> <<"TransVolume", "JiaoYiLiang">>

\* the first candidate that is present, whatever its value
RECURSIVE pickFirstPresent(_, _)
pickFirstPresent(rec, candidates) ==
    IF candidates = <<>> THEN EmptyStr
    ELSE IF Head(candidates) \in DOMAIN rec THEN rec[Head(candidates)]
    ELSE pickFirstPresent(rec, Tail(candidates))

\* pick(*candidates) over the dict rec (a function from keys to values)
RECURSIVE pick(_, _)
pick(rec, candidates) ==
    IF candidates = <<>> THEN EmptyStr
    ELSE LET c == Head(candidates)
         IN IF c \in DOMAIN rec /\ rec[c] # PyNone /\ rec[c] # EmptyStr
            THEN rec[c]
            ELSE pick(rec, Tail(candidates))

\* normalize_record(rec): the dict d, as a function over the output fields
normalize_record(rec) ==
    LET d == [f \in OutputFieldSet |-> pick(rec, Candidates(f))]
    IN [d EXCEPT !["JiaoYiRiQi"] = roc_to_western(d["JiaoYiRiQi"])]

----------------------------------------------------------------------------
\* normalize_record on its own: a raw mapping goes in, the result goes in again

\* a key the mapping does not have
Absent == [t |-> "absent", v |-> <<>>]

Str109 == <<"1", "0", "9", ".", "0", "1", ".", "0", "2">>

\* what the upstream may hold under each of the names probed
TransDateValues ==
    {Absent, PyNone, EmptyStr, PyStr(Str109), PyStr(<<"b", "a", "d">>),
     PyStr(<<"1", ".", "2">>), PyStr(<<"a", ".", "b", ".", "c">>),
     PyInt(1090102), PyInt(0), EmptyList, PyDict("y" :> PyInt(109))}

JiaoYiRiQiValues == {Absent, EmptyStr, PyStr(<<"1", "1", "0", ".", "1", "2", ".", "3", "1">>)}

CategoryCodeValues == {Absent, PyNone, EmptyStr, PyStr(N05)}

ZhongLeiDaiMaValues == {Absent, PyStr(<<" ", "N", "0", "5", " ">>)}

CropCodeValues == {Absent, EmptyStr, PyInt(0), PyStr(<<"A", "1">>)}

ZuoWuDaiHaoValues == {Absent, PyStr(<<"B", "2">>)}

\* the mapping with key k, or with no key when the value is Absent
Entry(k, v) == IF v = Absent THEN <<>> ELSE k :> v

\* rec = {...}
NormInit ==
    /\ \E td \in TransDateValues, jy \in JiaoYiRiQiValues,
          cc \in CategoryCodeValues, zl \in ZhongLeiDaiMaValues,
          cr \in CropCodeValues, zw \in ZuoWuDaiHaoValues :
          n_rec = Entry("TransDate", td) @@ Entry("JiaoYiRiQi", jy)
                  @@ Entry("CategoryCode", cc) @@ Entry("ZhongLeiDaiMa", zl)
                  @@ Entry("CropCode", cr) @@ Entry("ZuoWuDaiHao", zw)
    /\ n_pc = "call"
    /\ n_out1 = <<>>
    /\ n_out2 = <<>>

NormIdle ==
    /\ n_rec = <<>>
    /\ n_pc = "twice"
    /\ n_out1 = <<>>
    /\ n_out2 = <<>>

\* an exception raised inside normalize_record leaves it
NormRaises(d) == d["JiaoYiRiQi"] = PyRaise

\* out = normalize_record(rec)
NormCall ==
    /\ n_pc = "call"
    /\ LET d == normalize_record(n_rec)
       IN IF NormRaises(d)
          THEN n_pc' = "raised" /\ n_out1' = n_out1
          ELSE n_pc' = "once" /\ n_out1' = d
    /\ UNCHANGED <<n_rec, n_out2>>
    /\ UNCHANGED <<pwVars, fbVars, mainVars, dcVars>>

\* normalize_record(out)
NormAgain ==
    /\ n_pc = "once"
    /\ LET d == normalize_record(n_out1)
       IN IF NormRaises(d)
          THEN n_pc' = "raised" /\ n_out2' = n_out2
          ELSE n_pc' = "twice" /\ n_out2' = d
    /\ UNCHANGED <<n_rec, n_out1>>
    /\ UNCHANGED <<pwVars, fbVars, mainVars, dcVars>>

----------------------------------------------------------------------------
\* to_roc and roc_to_western on their own

LeapYear(y) == y % 4 = 0 /\ (y % 100 # 0 \/ y % 400 = 0)

DaysInMonth(y, m) ==
    IF m = 2 THEN (IF LeapYear(y) THEN 29 ELSE 28)
    ELSE IF m \in {4, 6, 9, 11} THEN 30 ELSE 31

\* years around the points where the offset year changes sign or width
DateYears == {1900, 1911, 1912, 1913, 2010, 2011, 2024, 2910, 2911, 9999}

\* the dt.date values tried
Dates ==
    {t \in DateYears \X (1..12) \X (1..31) : t[3] <= DaysInMonth(t[1], t[2])}

DateAlphabet == {"1", ".", "a", " ", "-", "_"}

\* the values tried as date_str
DateStrings == {PyStr(x) : x \in SeqsUpTo(DateAlphabet, MaxDateLen)} \cup {PyNone}

DCInit ==
    /\ \/ dc_pc = "date" /\ dc_in \in Dates
       \/ dc_pc = "str" /\ dc_in \in DateStrings
    /\ dc_roc = EmptyStr
    /\ dc_out = EmptyStr

DCIdle ==
    /\ dc_in = PyNone
    /\ dc_pc = "converted"
    /\ dc_roc = EmptyStr
    /\ dc_out = EmptyStr

\* s = to_roc(d, use_roc=True)
DCToRoc ==
    /\ dc_pc = "date"
    /\ dc_roc' = PyStr(to_roc(dc_in[1], dc_in[2], dc_in[3], TRUE))
    /\ dc_pc' = "roc"
    /\ UNCHANGED <<dc_in, dc_out>>
    /\ UNCHANGED <<pwVars, fbVars, mainVars, normVars>>

\* roc_to_western(s)
DCBack ==
    /\ dc_pc = "roc"
    /\ LET r == roc_to_western(dc_roc)
       IN IF r = PyRaise
          THEN dc_pc' = "raised" /\ dc_out' = dc_out
          ELSE dc_pc' = "back" /\ dc_out' = r
    /\ UNCHANGED <<dc_in, dc_roc>>
    /\ UNCHANGED <<pwVars, fbVars, mainVars, normVars>>

\* roc_to_western(date_str)
DCRocToWestern ==
    /\ dc_pc = "str"
    /\ LET r == roc_to_western(dc_in)
       IN IF r = PyRaise
          THEN dc_pc' = "raised" /\ dc_out' = dc_out
          ELSE dc_pc' = "converted" /\ dc_out' = r
    /\ UNCHANGED <<dc_in, dc_roc>>
    /\ UNCHANGED <<pwVars, fbVars, mainVars, normVars>>

----------------------------------------------------------------------------
\* period_windows(start_d, end_d, days)

\* a run of the generator is cut after this many yields (only a run that
\* would never end gets that far: a valid range has at most MaxDay + 1 windows)
YieldCap == MaxDay + 3

PeriodEndOffByOne(cursor, end_d, days) == Min(end_d, cursor + days)

\* period_end = min(end_d, cursor + dt.timedelta(days=days - 1))
PeriodEnd(cursor, end_d, days) == Min(end_d, cursor + (days - 1))

NextCursorSkipsDay(period_end) == period_end + 2

\* cursor = period_end + dt.timedelta(days=1)
NextCursor(period_end) == period_end + 1

\* cursor = start_d
PWCall ==
    /\ pw_pc = "call"
    /\ pw_cursor' = pw_start
    /\ pw_pc' = "loop"
    /\ UNCHANGED <<pw_start, pw_end, pw_days, pw_out>>
    /\ UNCHANGED <<fbVars, mainVars, normVars, dcVars>>

\* one turn of `while cursor <= end_d`: yield a window and move the cursor
PWYield ==
    /\ pw_pc = "loop"
    /\ pw_cursor <= pw_end
    /\ Len(pw_out) < YieldCap
    /\ LET period_start == pw_cursor
           period_end == PeriodEnd(pw_cursor, pw_end, pw_days)
       IN /\ pw_out' = Append(pw_out, <<period_start, period_end>>)
          /\ pw_cursor' = NextCursor(period_end)
    /\ UNCHANGED <<pw_start, pw_end, pw_days, pw_pc>>
    /\ UNCHANGED <<fbVars, mainVars, normVars, dcVars>>

\* the loop test fails: the generator is exhausted
PWReturn ==
    /\ pw_pc = "loop"
    /\ ~(pw_cursor <= pw_end)
    /\ pw_pc' = "done"
    /\ UNCHANGED <<pw_start, pw_end, pw_days, pw_cursor, pw_out>>
    /\ UNCHANGED <<fbVars, mainVars, normVars, dcVars>>

PWInit ==
    /\ pw_start \in 0..MaxDay
    /\ pw_end \in 0..MaxDay
    /\ pw_days \in ((-1)..MaxSeg) \cup {SEGMENT_DAYS}
    /\ pw_cursor = 0
    /\ pw_pc = "call"
    /\ pw_out = <<>>

PWIdle ==
    /\ pw_start = 0
    /\ pw_end = 0
    /\ pw_days = SEGMENT_DAYS
    /\ pw_cursor = 0
    /\ pw_pc = "done"
    /\ pw_out = <<>>

----------------------------------------------------------------------------
\* The upstream of one window: what a session.get can be answered with

\* sample records of the upstream (its field names and values are its own)
RecEnglish ==
    PyDict("CategoryCode" :> PyStr(N05)
           @@ "TransDate" :> PyStr(<<"1", "0", "9", ".", "0", "1", ".", "0", "2">>)
           @@ "CropCode" :> PyStr(<<"A", "1">>))

RecChinese ==
    PyDict("ZhongLeiDaiMa" :> PyStr(<<" ", "N", "0", "5", " ">>)
           @@ "JiaoYiRiQi" :> PyStr(<<"1", "0", "9", ".", "0", "1", ".", "0", "3">>)
           @@ "TransDate" :> EmptyStr)

\* CategoryCode is present, so the N05 under the other name is never read
RecOtherCategory ==
    PyDict("CategoryCode" :> PyStr(<<"N", "0", "4">>)
           @@ "ZhongLeiDaiMa" :> PyStr(N05))

\* a list element that is no JSON object
RecNotDict == PyInt(7)

RawSamples == {RecEnglish, RecChinese, RecOtherCategory, RecNotDict}

\* bodies that decode to something other than a list
NonListBodies == {PyNone, PyDict("Message" :> PyStr(<<"e", "r", "r">>))}

\* the records the window has been served so far
Served == Concat([i \in 1..Len(returns) |->
                     IF returns[i].t = "list" THEN returns[i].v ELSE <<>>])

\* the length of a list body is the upstream's own choice, up to one more than
\* asked for, as long as the window's records last
ListBodies ==
    {PyList(xs) : xs \in SeqsUpTo(RawSamples,
                                  Min(page_top + 1, MaxRecords - Len(Served)))}

----------------------------------------------------------------------------
\* get_json(url, params, max_retry=5)

RetryDelayExponential(i) == RETRY_DELAY_BASE * (2 ^ i)

RetryDelayZeroBased(i) == RETRY_DELAY_BASE * i

\* time.sleep(RETRY_DELAY_BASE * (i + 1))
RetryDelay(i) == RETRY_DELAY_BASE * (i + 1)

\* how a session.get ended: it raised, or r.json() gave a body
Failed == [ok |-> FALSE, body |-> PyNone]
Answered(body) == [ok |-> TRUE, body |-> body]

RetryLoopContinuesOnceMore(i) == i <= MAX_RETRY

\* for i in range(max_retry)
RetryLoopContinues(i) == i < MAX_RETRY

\* get_json is entered with the params of the current page
GJCall ==
    /\ fb_pc = "request"
    /\ gj_i' = 0
    /\ gj_sleeps' = <<>>
    /\ gj_outcomes' = <<>>
    /\ gj_exhausted' = FALSE
    /\ skips' = Append(skips, skip)
    /\ fb_pc' = "attempt"
    /\ UNCHANGED <<page_top, skip, all_rows, data, fb_ret, returns>>
    /\ UNCHANGED <<pwVars, mainVars, normVars, dcVars>>

\* an attempt that succeeds: return r.json()
GJAttemptOk ==
    /\ fb_pc = "attempt"
    /\ RetryLoopContinues(gj_i)
    /\ \E body \in ListBodies \cup NonListBodies :
          /\ data' = body
          /\ returns' = Append(returns, body)
          /\ gj_outcomes' = Append(gj_outcomes, Answered(body))
    /\ fb_pc' = "got"
    /\ UNCHANGED <<page_top, skip, all_rows, fb_ret, gj_i, gj_sleeps,
                   gj_exhausted, skips>>
    /\ UNCHANGED <<pwVars, mainVars, normVars, dcVars>>

\* an attempt that raises (transport, HTTP status, decoding): sleep, next i
GJAttemptFail ==
    /\ fb_pc = "attempt"
    /\ RetryLoopContinues(gj_i)
    /\ gj_outcomes' = Append(gj_outcomes, Failed)
    /\ gj_sleeps' = Append(gj_sleeps, RetryDelay(gj_i))
    /\ gj_i' = gj_i + 1
    /\ UNCHANGED <<page_top, fb_pc, skip, all_rows, data, fb_ret,
                   gj_exhausted, skips, returns>>
    /\ UNCHANGED <<pwVars, mainVars, normVars, dcVars>>

\* range(max_retry) is used up: return []
GJGiveUp ==
    /\ fb_pc = "attempt"
    /\ ~RetryLoopContinues(gj_i)
    /\ gj_exhausted' = TRUE
    /\ data' = EmptyList
    /\ returns' = Append(returns, EmptyList)
    /\ fb_pc' = "got"
    /\ UNCHANGED <<page_top, skip, all_rows, fb_ret, gj_i, gj_sleeps,
                   gj_outcomes, skips>>
    /\ UNCHANGED <<pwVars, mainVars, normVars, dcVars>>

----------------------------------------------------------------------------
\* fetch_period_block(period_start, period_end, page_top)

\* dict.get(key, default)
DictGet(d, key, default) == IF key \in DOMAIN d THEN d[key] ELSE default

\* str(rec.get("CategoryCode", rec.get("種類代碼", ""))).strip()
category_code(rec) ==
    Strip(PyStrOf(DictGet(rec.v, "CategoryCode",
                          DictGet(rec.v, "ZhongLeiDaiMa", EmptyStr))))

MatchesNoStrip(rec) ==
    PyStrOf(DictGet(rec.v, "CategoryCode",
                    DictGet(rec.v, "ZhongLeiDaiMa", EmptyStr))) = N05

\* if code == "N05"
Matches(rec) == category_code(rec) = N05

\* if not isinstance(data, list) or not data: break
EndOfData(d) == d.t # "list" \/ d.v = <<>>

\* rec.get raises AttributeError on a list element that is no dict
PageRaises(recs) == \E i \in 1..Len(recs) : recs[i].t # "dict"

\* the rows the for loop appends for one page, in page order
RECURSIVE MatchedRows(_)
MatchedRows(recs) ==
    IF recs = <<>> THEN <<>>
    ELSE IF Matches(Head(recs))
         THEN <<normalize_record(Head(recs).v)>> \o MatchedRows(Tail(recs))
         ELSE MatchedRows(Tail(recs))

ShortPageByMatched(recs, top) == Len(MatchedRows(recs)) < top

\* if len(data) < page_top: break
ShortPage(recs, top) == Len(recs) < top

NextSkipByOne(s, top) == s + 1

\* skip += page_top
NextSkip(s, top) == s + top

LoopReentered == "request"

\* break on end of data: the while loop is left, on to `return all_rows`
LoopLeft == "done"

\* what fetch_period_block returns when its loop breaks
ReturnRowsRollback(rows) == <<>>

ReturnRows(rows) == rows

\* all_rows = []; skip = 0
FBEntry ==
    /\ fb_pc = "entry"
    /\ all_rows' = <<>>
    /\ skip' = 0
    /\ fb_pc' = "request"
    /\ UNCHANGED <<page_top, data, fb_ret, gj_i, gj_sleeps, gj_outcomes,
                   gj_exhausted, skips, returns>>
    /\ UNCHANGED <<pwVars, mainVars, normVars, dcVars>>

\* the loop body after get_json has returned
FBPage ==
    /\ fb_pc = "got"
    /\ IF EndOfData(data)
       THEN /\ fb_ret' = ReturnRows(all_rows)
            /\ fb_pc' = LoopLeft
            /\ UNCHANGED <<all_rows, skip>>
       ELSE IF PageRaises(data.v)
       THEN /\ fb_pc' = "raised"
            /\ UNCHANGED <<all_rows, skip, fb_ret>>
       ELSE LET rows == all_rows \o MatchedRows(data.v)
            IN /\ all_rows' = rows
               /\ IF ShortPage(data.v, page_top)
                  THEN /\ fb_ret' = ReturnRows(rows)
                       /\ fb_pc' = "done"
                       /\ skip' = skip
                  ELSE /\ skip' = NextSkip(skip, page_top)
                       /\ fb_pc' = "request"
                       /\ fb_ret' = fb_ret
    /\ UNCHANGED <<page_top, data, gj_i, gj_sleeps, gj_outcomes, gj_exhausted,
                   skips, returns>>
    /\ UNCHANGED <<pwVars, mainVars, normVars, dcVars>>

FBInit ==
    /\ page_top \in 1..MaxPageTop
    /\ fb_pc = "entry"
    /\ skip = 0
    /\ all_rows = <<>>
    /\ data = PyNone
    /\ fb_ret = <<>>
    /\ gj_i = 0
    /\ gj_sleeps = <<>>
    /\ gj_outcomes = <<>>
    /\ gj_exhausted = FALSE
    /\ skips = <<>>
    /\ returns = <<>>

FBIdle ==
    /\ page_top = 1
    /\ fb_pc = "done"
    /\ skip = 0
    /\ all_rows = <<>>
    /\ data = PyNone
    /\ fb_ret = <<>>
    /\ gj_i = 0
    /\ gj_sleeps = <<>>
    /\ gj_outcomes = <<>>
    /\ gj_exhausted = FALSE
    /\ skips = <<>>
    /\ returns = <<>>

----------------------------------------------------------------------------
\* process_period(p_start, p_end, total_tasks), one call per task
\*
\* fetch_period_block is taken here by its outcome alone (SpecFetch has its
\* steps): it returns a list of rows or it raises. Row i of task t is <<t, i>>.
\* A row that writerow has accepted is counted as in the file: the file
\* object's buffer is flushed at the latest when the with block closes it.

Header == <<0, 0>>
StaleRow == <<0, 1>>

Tasks == 1..total_tasks

Running ==
    {t \in Tasks : t_pc[t] \in {"fetched", "writing", "lock", "locked"}}

\* the queue of the pool is first in, first out
NextQueued(t) ==
    /\ t_pc[t] = "queued"
    /\ \A u \in Tasks : t_pc[u] = "queued" => t <= u

OpenTruncate(f) == <<>>

\* open(OUTPUT_CSV, "a", ...): the rows already there stay
OpenAppend(f) == f

\* the rows of task t that are in the file f, in file order
RowsOf(f, t) == SelectSeq(f, LAMBDA r : r[1] = t)

FileAfterFailedWriteRollback(f, t) == SelectSeq(f, LAMBDA r : r[1] # t)

\* writerow raised: the with block closes the file, which keeps the rows
\* written before
FileAfterFailedWrite(f, t) == f

LockIgnored(holder) == TRUE

\* with progress_lock: the lock can be taken when nobody holds it
LockFree(holder) == holder = 0

\* a free worker takes the next task and runs rows = fetch_period_block(...)
TFetch(t) ==
    /\ main_pc \in {"submit", "collect"}
    /\ NextQueued(t)
    /\ Cardinality(Running) < MaxWorkers
    /\ \/ \E n \in 0..MaxRows :
             /\ t_rows' = [t_rows EXCEPT ![t] = n]
             /\ t_pc' = [t_pc EXCEPT ![t] = "fetched"]
       \/ /\ t_pc' = [t_pc EXCEPT ![t] = "raised_fetch"]
          /\ UNCHANGED t_rows
    /\ UNCHANGED <<main_pc, total_tasks, file, header_writes, submitted,
                   t_written, t_tmp, progress_lock, completed_tasks,
                   collected, total_cnt>>
    /\ UNCHANGED <<pwVars, fbVars, normVars, dcVars>>

\* if rows: with open(OUTPUT_CSV, "a", ...) as f  /  else: no data
TOpen(t) ==
    /\ t_pc[t] = "fetched"
    /\ IF t_rows[t] > 0
       THEN \/ /\ file' = OpenAppend(file)
               /\ t_pc' = [t_pc EXCEPT ![t] = "writing"]
            \/ /\ t_pc' = [t_pc EXCEPT ![t] = "raised_open"]
               /\ UNCHANGED file
       ELSE /\ t_pc' = [t_pc EXCEPT ![t] = "lock"]
            /\ UNCHANGED file
    /\ UNCHANGED <<main_pc, total_tasks, header_writes, submitted, t_rows,
                   t_written, t_tmp, progress_lock, completed_tasks,
                   collected, total_cnt>>
    /\ UNCHANGED <<pwVars, fbVars, normVars, dcVars>>

\* one turn of `for r in rows: writer.writerow(r)`; a writerow that raises
\* (a value that cannot be encoded, an I/O error) leaves the with block,
\* which closes the file, and the call
TWriteRow(t) ==
    /\ t_pc[t] = "writing"
    /\ t_written[t] < t_rows[t]
    /\ \/ /\ file' = Append(file, <<t, t_written[t] + 1>>)
          /\ t_written' = [t_written EXCEPT ![t] = t_written[t] + 1]
          /\ UNCHANGED t_pc
       \/ /\ t_pc' = [t_pc EXCEPT ![t] = "raised_write"]
          /\ file' = FileAfterFailedWrite(file, t)
          /\ UNCHANGED t_written
    /\ UNCHANGED <<main_pc, total_tasks, header_writes, submitted, t_rows,
                   t_tmp, progress_lock, completed_tasks, collected, total_cnt>>
    /\ UNCHANGED <<pwVars, fbVars, normVars, dcVars>>

\* the for loop is over: the with block closes the file
TClose(t) ==
    /\ t_pc[t] = "writing"
    /\ t_written[t] = t_rows[t]
    /\ t_pc' = [t_pc EXCEPT ![t] = "lock"]
    /\ UNCHANGED <<main_pc, total_tasks, file, header_writes, submitted,
                   t_rows, t_written, t_tmp, progress_lock, completed_tasks,
                   collected, total_cnt>>
    /\ UNCHANGED <<pwVars, fbVars, normVars, dcVars>>

\* with progress_lock: acquire, then load completed_tasks for the += 1
TAcquire(t) ==
    /\ t_pc[t] = "lock"
    /\ LockFree(progress_lock)
    /\ progress_lock' = t
    /\ t_tmp' = [t_tmp EXCEPT ![t] = completed_tasks]
    /\ t_pc' = [t_pc EXCEPT ![t] = "locked"]
    /\ UNCHANGED <<main_pc, total_tasks, file, header_writes, submitted,
                   t_rows, t_written, completed_tasks, collected, total_cnt>>
    /\ UNCHANGED <<pwVars, fbVars, normVars, dcVars>>

NotIncremented(n) == n

\* completed_tasks += 1, on the value loaded
Incremented(n) == n + 1

\* store completed_tasks, release the lock, return len(rows)
TIncrement(t) ==
    /\ t_pc[t] = "locked"
    /\ completed_tasks' = Incremented(t_tmp[t])
    /\ progress_lock' = 0
    /\ t_pc' = [t_pc EXCEPT ![t] = "returned"]
    /\ UNCHANGED <<main_pc, total_tasks, file, header_writes, submitted,
                   t_rows, t_written, t_tmp, collected, total_cnt>>
    /\ UNCHANGED <<pwVars, fbVars, normVars, dcVars>>

----------------------------------------------------------------------------
\* The main block

CaughtOnlyOSError(pc) == pc \in {"raised_open"}

\* except Exception: whatever the task raised is caught
CaughtByExcept(pc) == pc \in {"raised_fetch", "raised_open", "raised_write"}

AddResultOverwrites(total, n) == n

\* total_cnt += future.result()
AddResult(total, n) == total + n

\* with open(OUTPUT_CSV, "w", ...): writer.writeheader()
MHeader ==
    /\ main_pc = "header"
    /\ file' = <<Header>>
    /\ header_writes' = header_writes + 1
    /\ main_pc' = "submit"
    /\ UNCHANGED <<total_tasks, submitted, t_pc, t_rows, t_written, t_tmp,
                   progress_lock, completed_tasks, collected, total_cnt>>
    /\ UNCHANGED <<pwVars, fbVars, normVars, dcVars>>

\* the output file cannot be created: the script ends with the error
MHeaderFails ==
    /\ main_pc = "header"
    /\ main_pc' = "failed"
    /\ UNCHANGED <<total_tasks, file, header_writes, submitted, t_pc, t_rows,
                   t_written, t_tmp, progress_lock, completed_tasks,
                   collected, total_cnt>>
    /\ UNCHANGED <<pwVars, fbVars, normVars, dcVars>>

\* executor.submit(process_period, ...) for the next window of period_list
MSubmit ==
    /\ main_pc = "submit"
    /\ submitted < total_tasks
    /\ submitted' = submitted + 1
    /\ t_pc' = [t_pc EXCEPT ![submitted + 1] = "queued"]
    /\ UNCHANGED <<main_pc, total_tasks, file, header_writes, t_rows,
                   t_written, t_tmp, progress_lock, completed_tasks,
                   collected, total_cnt>>
    /\ UNCHANGED <<pwVars, fbVars, normVars, dcVars>>

\* the dict of futures is built: for future in as_completed(futures)
MSubmitted ==
    /\ main_pc = "submit"
    /\ submitted = total_tasks
    /\ main_pc' = "collect"
    /\ UNCHANGED <<total_tasks, file, header_writes, submitted, t_pc, t_rows,
                   t_written, t_tmp, progress_lock, completed_tasks,
                   collected, total_cnt>>
    /\ UNCHANGED <<pwVars, fbVars, normVars, dcVars>>

\* as_completed yields a future whose task returned
MCollectResult(t) ==
    /\ main_pc = "collect"
    /\ t \notin collected
    /\ t_pc[t] = "returned"
    /\ total_cnt' = AddResult(total_cnt, t_rows[t])
    /\ collected' = collected \cup {t}
    /\ UNCHANGED <<main_pc, total_tasks, file, header_writes, submitted, t_pc,
                   t_rows, t_written, t_tmp, progress_lock, completed_tasks>>
    /\ UNCHANGED <<pwVars, fbVars, normVars, dcVars>>

\* as_completed yields a future whose task raised: except Exception, print
MCollectError(t) ==
    /\ main_pc = "collect"
    /\ t \notin collected
    /\ CaughtByExcept(t_pc[t])
    /\ collected' = collected \cup {t}
    /\ UNCHANGED <<main_pc, total_tasks, file, header_writes, submitted, t_pc,
                   t_rows, t_written, t_tmp, progress_lock, completed_tasks,
                   total_cnt>>
    /\ UNCHANGED <<pwVars, fbVars, normVars, dcVars>>

\* every future has been yielded: the executor shuts down, the total is printed
MFinish ==
    /\ main_pc = "collect"
    /\ collected = Tasks
    /\ main_pc' = "done"
    /\ UNCHANGED <<total_tasks, file, header_writes, submitted, t_pc, t_rows,
                   t_written, t_tmp, progress_lock, completed_tasks,
                   collected, total_cnt>>
    /\ UNCHANGED <<pwVars, fbVars, normVars, dcVars>>

\* the module has been loaded up to line 182; the output file is absent or
\* is the one an earlier run left
MainInit ==
    /\ main_pc = "header"
    /\ total_tasks \in 1..MaxTasks
    /\ file \in {<<>>, <<Header, StaleRow>>}
    /\ header_writes = 0
    /\ submitted = 0
    /\ t_pc = [t \in 1..total_tasks |-> "unsubmitted"]
    /\ t_rows = [t \in 1..total_tasks |-> 0]
    /\ t_written = [t \in 1..total_tasks |-> 0]
    /\ t_tmp = [t \in 1..total_tasks |-> 0]
    /\ progress_lock = 0
    /\ completed_tasks = 0
    /\ collected = {}
    /\ total_cnt = 0

MainIdle ==
    /\ main_pc = "done"
    /\ total_tasks = 0
    /\ file = <<>>
    /\ header_writes = 0
    /\ submitted = 0
    /\ t_pc = <<>>
    /\ t_rows = <<>>
    /\ t_written = <<>>
    /\ t_tmp = <<>>
    /\ progress_lock = 0
    /\ completed_tasks = 0
    /\ collected = {}
    /\ total_cnt = 0

----------------------------------------------------------------------------
\* Specifications

vars == <<pwVars, fbVars, mainVars, normVars, dcVars>>

InitPW == PWInit /\ FBIdle /\ MainIdle /\ NormIdle /\ DCIdle

NextPW == PWCall \/ PWYield \/ PWReturn

SpecPW == InitPW /\ [][NextPW]_vars

InitFetch == PWIdle /\ FBInit /\ MainIdle /\ NormIdle /\ DCIdle

NextFetch == FBEntry \/ GJCall \/ GJAttemptOk \/ GJAttemptFail \/ GJGiveUp \/ FBPage

SpecFetch == InitFetch /\ [][NextFetch]_vars

Init == PWIdle /\ FBIdle /\ MainInit /\ NormIdle /\ DCIdle

Next ==
    \/ MHeader
    \/ MHeaderFails
    \/ MSubmit
    \/ MSubmitted
    \/ \E t \in Tasks : MCollectResult(t)
    \/ \E t \in Tasks : MCollectError(t)
    \/ MFinish
    \/ \E t \in Tasks : TFetch(t)
    \/ \E t \in Tasks : TOpen(t)
    \/ \E t \in Tasks : TWriteRow(t)
    \/ \E t \in Tasks : TClose(t)
    \/ \E t \in Tasks : TAcquire(t)
    \/ \E t \in Tasks : TIncrement(t)

Spec == Init /\ [][Next]_vars

\* the interpreter runs every thread that can run: the main thread and the
\* pool's workers all take their next step sooner or later
FairSpec == Init /\ [][Next]_vars /\ WF_vars(Next)

InitNorm == PWIdle /\ FBIdle /\ MainIdle /\ NormInit /\ DCIdle

NextNorm == NormCall \/ NormAgain

SpecNorm == InitNorm /\ [][NextNorm]_vars

InitDate == PWIdle /\ FBIdle /\ MainIdle /\ NormIdle /\ DCInit

NextDate == DCToRoc \/ DCBack \/ DCRocToWestern

SpecDate == InitDate /\ [][NextDate]_vars

----------------------------------------------------------------------------
\* Claims about period_windows

ValidRange == pw_start <= pw_end /\ pw_days >= 1

WinStart(i) == pw_out[i][1]
WinEnd(i) == pw_out[i][2]

\* C1: for start <= end and segment_days >= 1 the windows yielded are in
\* ascending order, the first starts at start, each starts one day after the
\* previous one ends, each spans at most segment_days days, every window lies
\* in [start, end], and when the generator is exhausted the last ends at end.
C1_WindowsPartition ==
    ValidRange =>
        /\ \A i \in 1..Len(pw_out) :
              /\ pw_start <= WinStart(i)
              /\ WinStart(i) <= WinEnd(i)
              /\ WinEnd(i) <= pw_end
              /\ WinEnd(i) - WinStart(i) + 1 <= pw_days
        /\ Len(pw_out) >= 1 => WinStart(1) = pw_start
        /\ \A i \in 1..(Len(pw_out) - 1) : WinStart(i + 1) = WinEnd(i) + 1
        /\ pw_pc = "loop" /\ Len(pw_out) >= 1
              => pw_cursor = WinEnd(Len(pw_out)) + 1
        /\ pw_pc = "done" =>
              /\ Len(pw_out) >= 1
              /\ WinEnd(Len(pw_out)) = pw_end

\* a finished run with several windows, the last one shorter than the others
C1_Witness ==
    /\ ValidRange
    /\ pw_pc = "done"
    /\ Len(pw_out) >= 2
    /\ WinEnd(1) - WinStart(1) + 1 = pw_days
    /\ pw_days >= 2
    /\ WinEnd(Len(pw_out)) - WinStart(Len(pw_out)) + 1 < pw_days

\* C2: period_windows fails with InvalidRangeError whenever start > end or
\* segment_days < 1: once called it has raised, and it has yielded nothing.
C2_InvalidRangeRaises ==
    (~ValidRange /\ pw_pc # "call") => (pw_pc = "raised" /\ pw_out = <<>>)

\* the number of days of [start, end]
DaysInRange == pw_end - pw_start + 1

\* ceil(n / d) for n >= 0, d >= 1
CeilDiv(n, d) == (n + d - 1) \div d

\* C19: for a valid range the exhausted generator has yielded exactly
\* ceil(days in range / segment_days) windows, every window but the last
\* spans exactly segment_days days, and when the range has at most
\* segment_days days the only window is (start, end).
C19_WindowCount ==
    (ValidRange /\ pw_pc = "done") =>
        /\ Len(pw_out) = CeilDiv(DaysInRange, pw_days)
        /\ \A i \in 1..(Len(pw_out) - 1) : WinEnd(i) - WinStart(i) + 1 = pw_days
        /\ DaysInRange <= pw_days => pw_out = << <<pw_start, pw_end>> >>

\* a 3-day range with segment_days = 10 has given its one window
C19_Witness ==
    /\ pw_pc = "done"
    /\ pw_days = SEGMENT_DAYS
    /\ DaysInRange = 3
    /\ pw_out = << <<pw_start, pw_end>> >>


----------------------------------------------------------------------------
\* Claims about normalize_record

PyTags == {"none", "str", "int", "list", "dict"}

\* d is a record of the output shape: every field of OUTPUT_FIELDS is a key
\* and holds a value
OutputShaped(d) ==
    /\ DOMAIN d = OutputFieldSet
    /\ \A f \in OutputFieldSet : d[f].t \in PyTags

\* none of the names probed for field f is a key of rec
NoCandidate(rec, f) ==
    \A i \in 1..Len(Candidates(f)) : Candidates(f)[i] \notin DOMAIN rec

\* C12: normalize_record never raises, whatever mapping it is given, and its
\* result has every field of OUTPUT_FIELDS as a key, with the empty string
\* under a field none of whose source names the mapping has.
C12_NormalizeTotal ==
    /\ n_pc # "raised"
    /\ n_pc \in {"once", "twice"} =>
          /\ OutputShaped(n_out1)
          /\ \A f \in OutputFieldSet : NoCandidate(n_rec, f) => n_out1[f] = EmptyStr
    /\ n_pc = "twice" => OutputShaped(n_out2)

\* a mapping whose only key is a date that is no string has been normalized
C12_Witness ==
    /\ n_pc = "once"
    /\ DOMAIN n_rec = {"TransDate"}
    /\ n_rec["TransDate"] = PyInt(1090102)
    /\ n_out1["JiaoYiRiQi"] = PyInt(1090102)
    /\ n_out1["ZhongLeiDaiMa"] = EmptyStr

\* C13: normalizing the result of normalize_record again gives the same value
\* for every field, the transaction date included.
C13_Idempotent ==
    n_pc = "twice" => \A f \in OutputFieldSet : n_out2[f] = n_out1[f]

\* candidate c is present in rec with a value that is neither None nor ""
Qualifies(rec, c) == c \in DOMAIN rec /\ rec[c] \notin {PyNone, EmptyStr}

\* the value of the first candidate that qualifies, "" when none does
FirstQualifying(rec, candidates) ==
    LET Q == {i \in 1..Len(candidates) : Qualifies(rec, candidates[i])}
    IN IF Q = {} THEN EmptyStr
       ELSE rec[candidates[CHOOSE i \in Q : \A j \in Q : i <= j]]

\* for every target field, the transaction date included, the result holds
\* the value of the first candidate that qualifies, "" when none does
C18_EveryFieldFirstCandidate ==
    n_pc \in {"once", "twice"} =>
        \A f \in OutputFieldSet : n_out1[f] = FirstQualifying(n_rec, Candidates(f))

\* C18: for every target field but the transaction date the result holds the
\* value of the first candidate present with a value that is neither None
\* nor "", and "" when no candidate qualifies; the transaction date holds
\* roc_to_western of that value.
C18_FirstQualifyingCandidate ==
    n_pc \in {"once", "twice"} =>
        /\ \A f \in OutputFieldSet \ {"JiaoYiRiQi"} :
              n_out1[f] = FirstQualifying(n_rec, Candidates(f))
        /\ n_out1["JiaoYiRiQi"] =
              roc_to_western(FirstQualifying(n_rec, Candidates("JiaoYiRiQi")))

\* an empty CategoryCode has not masked the 種類代碼 after it, a field with
\* no candidate is "", and the date found under the second name is converted
C18_Witness ==
    /\ n_pc = "once"
    /\ "CategoryCode" \in DOMAIN n_rec
    /\ n_rec["CategoryCode"] = EmptyStr
    /\ "ZhongLeiDaiMa" \in DOMAIN n_rec
    /\ n_out1["ZhongLeiDaiMa"] = n_rec["ZhongLeiDaiMa"]
    /\ NoCandidate(n_rec, "ZuoWuDaiHao")
    /\ n_out1["ZuoWuDaiHao"] = EmptyStr
    /\ "TransDate" \in DOMAIN n_rec
    /\ n_rec["TransDate"] = PyNone
    /\ "JiaoYiRiQi" \in DOMAIN n_rec
    /\ n_out1["JiaoYiRiQi"] = PyStr(<<"2", "0", "2", "1", ".", "1", "2", ".", "3", "1">>)

----------------------------------------------------------------------------
\* Claims about to_roc and roc_to_western

\* the two digits of n < 100
TwoDigits(n) == <<DigitChar(n \div 10), DigitChar(n % 10)>>

\* YYYY.MM.DD of a date with a year of four digits
StandardDate(y, m, d) ==
    TwoDigits(y \div 100) \o TwoDigits(y % 100) \o <<".">> \o TwoDigits(m)
        \o <<".">> \o TwoDigits(d)

\* C14: for a date d with d.year >= 1912 the year to_roc writes is
\* d.year - 1911, month and day are written as they are, and roc_to_western
\* turns the string into YYYY.MM.DD of d.
C14_RoundTrip ==
    (dc_pc \in {"roc", "back", "raised"} /\ dc_in[1] >= 1912) =>
        /\ dc_pc # "raised"
        /\ LET parts == Split(dc_roc.v, ".")
           IN /\ Len(parts) = 3
              /\ ParseInt(parts[1]) = [ok |-> TRUE, v |-> dc_in[1] - 1911]
              /\ parts[2] = TwoDigits(dc_in[2])
              /\ parts[3] = TwoDigits(dc_in[3])
        /\ dc_pc = "back" => dc_out = PyStr(StandardDate(dc_in[1], dc_in[2], dc_in[3]))

\* 29 February 2024 has gone to 113.02.29 and back
C14_Witness ==
    /\ dc_pc = "back"
    /\ dc_in = <<2024, 2, 29>>
    /\ dc_roc = PyStr(<<"1", "1", "3", ".", "0", "2", ".", "2", "9">>)
    /\ dc_out = PyStr(<<"2", "0", "2", "4", ".", "0", "2", ".", "2", "9">>)

\* a non-empty string that does not split on "." into exactly three parts, or
\* one of whose parts int() does not take
Malformed(x) ==
    /\ x.t = "str"
    /\ x.v # <<>>
    /\ LET parts == Split(x.v, ".")
       IN \/ Len(parts) # 3
          \/ \E i \in 1..Len(parts) : ~ParseInt(parts[i]).ok

\* C15: roc_to_western does not raise; given a malformed date string it
\* returns the string as it is, given None or "" it returns "".
C15_MalformedPassThrough ==
    (dc_pc \in {"converted", "raised"} /\ dc_in \in DateStrings) =>
        /\ dc_pc = "converted"
        /\ Malformed(dc_in) => dc_out = dc_in
        /\ dc_in \in {PyNone, EmptyStr} => dc_out = EmptyStr

\* a string of three parts, the middle one no integer, has come back as it is
C15_Witness ==
    /\ dc_pc = "converted"
    /\ dc_in = PyStr(<<"1", ".", "a", ".", "1">>)
    /\ dc_out = dc_in

----------------------------------------------------------------------------
\* Claims about get_json and fetch_period_block

\* the pages before the last one were full, the last one was short
FullPagesThenShort ==
    /\ Len(returns) >= 1
    /\ \A i \in 1..Len(returns) : returns[i].t = "list"
    /\ \A i \in 1..(Len(returns) - 1) : Len(returns[i].v) = page_top
    /\ Len(Last(returns).v) < page_top

AllServedMatch ==
    \A i \in 1..Len(Served) : Served[i].t = "dict" /\ Matches(Served[i])

\* <<0, page_top, ..., (n - 1) * page_top>>
SkipsOfPages(n) == [i \in 1..n |-> (i - 1) * page_top]

\* C3: when the upstream returned k full pages of page_top records and then
\* a page of r < page_top records, all matching the filter, the call made
\* exactly k + 1 page requests, with $skip = 0, page_top, ..., k * page_top,
\* and returned exactly k * page_top + r records.
C3_PagesAccumulate ==
    (fb_pc = "done" /\ FullPagesThenShort /\ AllServedMatch) =>
        /\ skips = SkipsOfPages(Len(returns))
        /\ Len(fb_ret) = (Len(returns) - 1) * page_top + Len(Last(returns).v)

\* two full pages and a short, non-empty last page, answered at first try
C3_Witness ==
    /\ fb_pc = "done"
    /\ FullPagesThenShort
    /\ AllServedMatch
    /\ ~gj_exhausted
    /\ Len(returns) = 3
    /\ page_top >= 2
    /\ Len(Last(returns).v) >= 1
    /\ Len(fb_ret) = 2 * page_top + Len(Last(returns).v)

FailedFourThenAnswered ==
    /\ fb_pc = "got"
    /\ Len(gj_outcomes) = 5
    /\ \A k \in 1..4 : ~gj_outcomes[k].ok
    /\ gj_outcomes[5].ok

\* C4: when the first 4 attempts of a page request fail and the 5th succeeds,
\* get_json returns the 5th attempt's response, the delays slept before it are
\* 1, 2, 3, 4 times the base delay in that order, and none follows it.
C4_FifthAttemptSucceeds ==
    FailedFourThenAnswered =>
        /\ ~gj_exhausted
        /\ data = gj_outcomes[5].body
        /\ gj_sleeps = <<1 * RETRY_DELAY_BASE, 2 * RETRY_DELAY_BASE,
                         3 * RETRY_DELAY_BASE, 4 * RETRY_DELAY_BASE>>

\* the 5th attempt is answered with a non-empty list
C4_Witness ==
    /\ FailedFourThenAnswered
    /\ data.t = "list"
    /\ data.v # <<>>
    /\ Len(gj_sleeps) = 4

AllFailed(n) ==
    /\ Len(gj_outcomes) = n
    /\ \A k \in 1..n : ~gj_outcomes[k].ok

\* C5: get_json never makes more than 5 attempts; when all 5 fail it returns
\* the empty list and does not raise; a window whose first page fails this way
\* ends with fetch_period_block returning the empty list, not raising.
C5_AllAttemptsFail ==
    /\ Len(gj_outcomes) <= 5
    /\ gj_exhausted => AllFailed(5)
    /\ (AllFailed(5) /\ fb_pc # "attempt") =>
          /\ gj_exhausted
          /\ data = EmptyList
          /\ fb_pc \in {"got", "done"}
    /\ (gj_exhausted /\ Len(skips) = 1 /\ fb_pc # "got") =>
          /\ fb_pc = "done"
          /\ fb_ret = <<>>

\* the first page's five attempts all failed and the call has returned
C5_Witness ==
    /\ AllFailed(5)
    /\ gj_exhausted
    /\ Len(skips) = 1
    /\ fb_pc = "done"
    /\ fb_ret = <<>>

\* C6: when retries are exhausted on page j > 0 the call requests no further
\* page and returns the matching records of pages 0..j-1, in order.
C6_PartialResultsKept ==
    (gj_exhausted /\ Len(skips) > 1 /\ fb_pc # "got") =>
        /\ fb_pc = "done"
        /\ Len(returns) = Len(skips)
        /\ skips = SkipsOfPages(Len(skips))
        /\ Last(returns) = EmptyList
        /\ fb_ret = MatchedRows(Served)
        /\ fb_ret = all_rows

\* retries exhausted on the third page, after two pages with matching and
\* non-matching records
C6_Witness ==
    /\ gj_exhausted
    /\ fb_pc = "done"
    /\ Len(skips) = 3
    /\ Len(fb_ret) >= 2
    /\ Len(fb_ret) < Len(Served)

\* the upstream's record carries the category code N05: under CategoryCode,
\* or under 種類代碼 when it has no CategoryCode, spaces around it aside
IsN05(rec) ==
    LET code == IF "CategoryCode" \in DOMAIN rec.v THEN rec.v["CategoryCode"]
                ELSE IF "ZhongLeiDaiMa" \in DOMAIN rec.v THEN rec.v["ZhongLeiDaiMa"]
                ELSE EmptyStr
    IN code.t = "str" /\ Strip(code.v) = N05

ServedN05 == SelectSeq(Served, IsN05)

\* C16: what fetch_period_block returns is the subsequence of the records
\* served whose category code is N05, each normalized, in the order served:
\* page after page, and within a page record after record.
C16_FilteredInOrder ==
    fb_pc = "done" =>
        fb_ret = [i \in 1..Len(ServedN05) |-> normalize_record(ServedN05[i].v)]

\* several pages, records of both namings kept, others dropped in between
C16_Witness ==
    /\ fb_pc = "done"
    /\ Len(returns) >= 2
    /\ Len(fb_ret) >= 2
    /\ Len(fb_ret) < Len(Served)
    /\ \E i \in 1..Len(Served) : Served[i] = RecChinese
    /\ \E i \in 1..Len(Served) : Served[i] = RecEnglish
    /\ \E i \in 1..Len(Served) : Served[i] = RecOtherCategory

\* C17: an answered attempt is the last attempt of its page request, a body
\* that is empty or no list is the last page requested, and the call then
\* returns the rows accumulated from the pages before it.
C17_StructuralEndsWindow ==
    /\ \A k \in 1..Len(gj_outcomes) :
          gj_outcomes[k].ok => (k = Len(gj_outcomes) /\ fb_pc # "attempt")
    /\ \A i \in 1..Len(returns) :
          EndOfData(returns[i]) =>
              /\ i = Len(returns)
              /\ Len(skips) = i
              /\ fb_pc \in {"got", "done"}
              /\ fb_pc = "done" =>
                    /\ fb_ret = all_rows
                    /\ fb_ret = MatchedRows(Concat([j \in 1..(i - 1) |-> returns[j].v]))

\* the second page is answered, after a failed attempt, with a body that is
\* no list; the first page's rows are returned
C17_Witness ==
    /\ fb_pc = "done"
    /\ ~gj_exhausted
    /\ Len(returns) = 2
    /\ Last(returns) \in NonListBodies
    /\ Len(gj_outcomes) = 2
    /\ Last(gj_outcomes).ok
    /\ Len(fb_ret) >= 1

\* the attempts of the current get_json call that failed
FailedAttempts == {k \in 1..Len(gj_outcomes) : ~gj_outcomes[k].ok}

\* C20: get_json has slept once after each failed attempt, the last one
\* included, the i-th time for i times RETRY_DELAY_BASE; when it gives up it
\* has slept 1, 2, 3, 4, 5 times the base, in that order, before returning
\* the empty list.
C20_LinearBackoff ==
    /\ Len(gj_sleeps) = Cardinality(FailedAttempts)
    /\ \A i \in 1..Len(gj_sleeps) : gj_sleeps[i] = i * RETRY_DELAY_BASE
    /\ gj_exhausted =>
          /\ gj_sleeps = [i \in 1..5 |-> i * RETRY_DELAY_BASE]
          /\ data = EmptyList

\* a later page's five attempts have failed and get_json has returned []
C20_Witness ==
    /\ gj_exhausted
    /\ fb_pc = "got"
    /\ Len(skips) = 2
    /\ Len(gj_sleeps) = 5
    /\ data = EmptyList

\* page i came back as a list of at least page_top records
FullPage(i) == returns[i].t = "list" /\ Len(returns[i].v) >= page_top

\* the loop body has not yet run on page i
Pending(i) == fb_pc = "got" /\ i = Len(returns)

\* the loop went on after page i: a further page has been or is about to be
\* requested
Continued(i) == Len(skips) > i \/ (fb_pc = "request" /\ i = Len(returns))

\* a record of page i made fetch_period_block raise
RaisedOn(i) == fb_pc = "raised" /\ i = Len(returns)

\* C21: whether another page is requested after a page depends on the page's
\* raw length alone: after a page of at least page_top records the next one
\* is requested with $skip larger by page_top, whatever matched the filter,
\* after a shorter page none is; $skip is always a multiple of page_top.
C21_PagingByRawLength ==
    /\ skip % page_top = 0
    /\ skips = SkipsOfPages(Len(skips))
    /\ fb_pc = "request" => skip = Len(returns) * page_top
    /\ \A i \in 1..Len(returns) :
          (~Pending(i) /\ ~RaisedOn(i)) => (Continued(i) <=> FullPage(i))

\* a full first page none of whose records matched was followed by a second
\* request; the second page, short and all matching, ended the window
C21_Witness ==
    /\ fb_pc = "done"
    /\ page_top = 2
    /\ Len(returns) = 2
    /\ skips = <<0, 2>>
    /\ returns[1] = PyList(<<RecOtherCategory, RecOtherCategory>>)
    /\ returns[2] = PyList(<<RecEnglish>>)
    /\ Len(fb_ret) = 1

----------------------------------------------------------------------------
\* Claims about the main block and process_period

Raised(t) == t_pc[t] \in {"raised_fetch", "raised_open", "raised_write"}
Returned(t) == t_pc[t] = "returned"
Finished(t) == Returned(t) \/ Raised(t)

\* <<t, 1>>, ..., <<t, n>>
RowsUpTo(t, n) == [i \in 1..n |-> <<t, i>>]

HeaderRows == {i \in 1..Len(file) : file[i] = Header}

RECURSIVE SumRows(_)
SumRows(T) ==
    IF T = {} THEN 0
    ELSE LET t == CHOOSE u \in T : TRUE
         IN t_rows[t] + SumRows(T \ {t})

\* C7: the header is written at most once in a run, and before any task is
\* submitted or started; from then on the file is the truncated one: its first
\* row is the header, the header occurs once, no row of an earlier run is left.
C7_HeaderOnceFirst ==
    /\ header_writes <= 1
    /\ (\E t \in Tasks : t_pc[t] # "unsubmitted") => header_writes = 1
    /\ main_pc \in {"submit", "collect", "done"} => header_writes = 1
    /\ header_writes = 1 =>
          /\ file # <<>>
          /\ file[1] = Header
          /\ HeaderRows = {1}
          /\ \A i \in 1..Len(file) : file[i] # StaleRow

\* the run is over and two tasks or more have appended rows under the header
C7_Witness ==
    /\ main_pc = "done"
    /\ header_writes = 1
    /\ Cardinality({t \in Tasks : RowsOf(file, t) # <<>>}) >= 2

\* C8: completed_tasks is the number of tasks that have done their locked
\* increment, it never exceeds total_tasks, the task between its load and its
\* store holds the lock and has loaded the current value, and once every task
\* has returned completed_tasks equals total_tasks.
C8_ProgressCounter ==
    /\ completed_tasks = Cardinality({t \in Tasks : Returned(t)})
    /\ completed_tasks <= total_tasks
    /\ \A t \in Tasks :
          t_pc[t] = "locked" => progress_lock = t /\ t_tmp[t] = completed_tasks
    /\ (\A t \in Tasks : Returned(t)) => completed_tasks = total_tasks

\* every task of a run of several has returned
C8_Witness ==
    /\ total_tasks >= 2
    /\ \A t \in Tasks : Returned(t)
    /\ completed_tasks = total_tasks

\* C9: total_cnt is the sum of the counts of the futures collected so far whose
\* task returned; a task that raised never ends the main block; when the run is
\* done every task has run to its end, every task that returned has all its rows
\* in the file, and total_cnt is the sum of the counts of the tasks that returned.
C9_TotalIsSum ==
    /\ total_cnt = SumRows({t \in collected : Returned(t)})
    /\ main_pc = "failed" => submitted = 0
    /\ main_pc = "done" =>
          /\ \A t \in Tasks : Finished(t)
          /\ \A t \in Tasks : Returned(t) => RowsOf(file, t) = RowsUpTo(t, t_rows[t])
          /\ total_cnt = SumRows({t \in Tasks : Returned(t)})

\* the run is done; the first task raised, a sibling returned its rows
C9_Witness ==
    /\ main_pc = "done"
    /\ Raised(1)
    /\ \E t \in Tasks : Returned(t) /\ t_rows[t] >= 2
    /\ total_cnt >= 2

\* C10 as claimed: once a task has finished, normally or by raising, the file
\* holds all of its rows or none of them.
C10_AllOrNothing ==
    \A t \in Tasks :
        Finished(t) =>
            \/ RowsOf(file, t) = <<>>
            \/ RowsOf(file, t) = RowsUpTo(t, t_rows[t])

\* C10 as amended: a task that returned has all its rows in the file, in order;
\* a task that raised in its fetch or in open has none; a task whose writerow
\* raised has the rows written before it, a proper prefix of its rows.
C10_AllNoneOrPrefix ==
    \A t \in Tasks :
        /\ Returned(t) => RowsOf(file, t) = RowsUpTo(t, t_rows[t])
        /\ t_pc[t] \in {"raised_fetch", "raised_open"} => RowsOf(file, t) = <<>>
        /\ t_pc[t] = "raised_write" =>
              /\ RowsOf(file, t) = RowsUpTo(t, t_written[t])
              /\ t_written[t] < t_rows[t]

\* a task's second writerow raised and left its first row in the file, while a
\* sibling returned with all its rows written
C10_Witness ==
    /\ \E t \in Tasks :
          /\ t_pc[t] = "raised_write"
          /\ RowsOf(file, t) = <<<<t, 1>>>>
    /\ \E t \in Tasks : Returned(t) /\ t_rows[t] >= 2

\* the calls that have raised
RaisedTasks == {t \in Tasks : Raised(t)}

\* C22: at every point completed_tasks is the number of process_period calls
\* that are past their locked increment; a call that raised, in its fetch or
\* in its file append, is not among them and never held the lock; so when the
\* run is done completed_tasks is total_tasks less the calls that raised.
C22_CounterSkipsRaised ==
    /\ completed_tasks = Cardinality({t \in Tasks : Returned(t)})
    /\ completed_tasks <= total_tasks - Cardinality(RaisedTasks)
    /\ \A t \in RaisedTasks : progress_lock # t
    /\ main_pc = "done" => completed_tasks = total_tasks - Cardinality(RaisedTasks)

\* the run of two windows is done: one call raised while appending to the
\* file, the other went through, and the counter stands at 1 of 2
C22_Witness ==
    /\ main_pc = "done"
    /\ total_tasks = 2
    /\ \E t \in Tasks : t_pc[t] = "raised_write" /\ t_written[t] >= 1
    /\ Cardinality(RaisedTasks) = 1
    /\ completed_tasks = 1

----------------------------------------------------------------------------
\* Claims about the run as a whole

RunEnded ==
    /\ main_pc = "done"
    /\ \A t \in Tasks : Finished(t)
    /\ collected = Tasks
    /\ total_cnt = SumRows({t \in Tasks : Returned(t)})

\* C11: once the output file has been created the run terminates, whatever the
\* windows' fetches gave (rows, no rows, an exception): every task finishes,
\* every future is collected and the final total is reported; only the failure
\* to create the output file ends the script otherwise.
C11_RunTerminates ==
    /\ (main_pc = "submit") ~> RunEnded
    /\ [](main_pc = "failed" => submitted = 0 /\ header_writes = 0)

\* the run has ended although one window fetched nothing and another raised
C11_Witness ==
    /\ RunEnded
    /\ \E t \in Tasks : Returned(t) /\ t_rows[t] = 0
    /\ \E t \in Tasks : Raised(t)

====
